---- MODULE Spec2Model ----
(***************************************************************************)
(* SafeStreet-LA, script.js: the panel switcher, the report submitter and  *)
(* the recent-hazards fetcher, as one event-driven state machine.  Every   *)
(* action is one run of a listener up to its next await, or the            *)
(* continuation of one request after an await.                             *)
(***************************************************************************)
EXTENDS Integers, Sequences, FiniteSets, TLC

\* ----- bounds -----
MaxSubmits == 2
MaxHazards == 2

\* ----- strings as sequences of characters (String.prototype.trim) -----
WhiteSpace == {" ", "\t"}

RECURSIVE TrimStart(_)
TrimStart(s) ==
  IF s = <<>> THEN <<>>
  ELSE IF Head(s) \in WhiteSpace THEN TrimStart(Tail(s)) ELSE s

RECURSIVE TrimEnd(_)
TrimEnd(s) ==
  IF s = <<>> THEN <<>>
  ELSE IF s[Len(s)] \in WhiteSpace THEN TrimEnd(SubSeq(s, 1, Len(s) - 1)) ELSE s

\* variant: the value is used untrimmed
trim_None(s) == s

trim(s) == TrimEnd(TrimStart(s))

\* ----- section switching -----
actionButtons == {"btn-report", "btn-recent", "btn-predict"}

dataSection == [b \in actionButtons |->
  CASE b = "btn-report" -> "report"
    [] b = "btn-recent" -> "recent"
    [] OTHER -> "predict"]

sections == {"report", "recent", "predict"}

\* markup states of the 'active' classes before the script has run a click
MarkupActive ==
  { <<{}, {}>>,
    <<{"btn-report"}, {"report"}>>,
    <<{"btn-report", "btn-recent"}, {"recent", "predict"}>> }

\* ----- report form -----
FormInputs ==
  { [location_name |-> <<" ", "E", "l", "m", " ">>, hazard_type |-> <<"p", "i", "t", "\t">>,
     accessibility |-> "2", user_type |-> "wheelchair", temporary |-> FALSE,
     description |-> <<" ", "d">>],
    [location_name |-> <<"O", "a", "k">>, hazard_type |-> <<"i", "c", "e">>,
     accessibility |-> "5", user_type |-> "pedestrian", temporary |-> TRUE,
     description |-> <<>>] }

FormDefaults(checked) ==
  [location_name |-> <<>>, hazard_type |-> <<>>, accessibility |-> "3",
   user_type |-> "pedestrian", temporary |-> checked, description |-> <<>>]

MsgSubmitting == "Submitting..."
MsgSuccess == "Thank you! Your report has been saved and will help train the model."
MsgNetworkError == "Network error submitting hazard."
MsgFailed == "Failed to submit"

\* parsed bodies of /api/report responses: an object, with or without 'error'
ReportBodies ==
  { [hasError |-> FALSE, error |-> ""],
    [hasError |-> TRUE, error |-> ""],
    [hasError |-> TRUE, error |-> "bad input"] }

\* ----- recent hazards form -----
Locations == { <<>>, <<" ", "\t">>, <<" ", "E", "l", " ", "S", "t", "\t">> }

MsgLoading == "Loading recent hazards..."
MsgEnterLocation == "Please enter a location."
MsgNoHazards == "No recent hazards for this location."
MsgFetchError == "Error fetching hazards."

HazardRecords ==
  { [day |-> "Mon", timestamp |-> "10:00", location_name |-> "Elm St",
     hazard_type |-> "pothole", accessibility |-> 3, user_type |-> "pedestrian",
     description |-> ""],
    [day |-> "Tue", timestamp |-> "11:30", location_name |-> "Oak Ave",
     hazard_type |-> "ice", accessibility |-> 1, user_type |-> "wheelchair",
     description |-> "black ice"] }

\* arrays of up to n records in which neighbours differ
RECURSIVE HazardArrays(_)
HazardArrays(n) ==
  IF n = 0 THEN { <<>> }
  ELSE LET shorter == HazardArrays(n - 1)
           longest == { q \in shorter : Len(q) = n - 1 }
       IN shorter \cup
            { Append(p[1], p[2]) :
                p \in { c \in longest \X HazardRecords :
                          c[1] = <<>> \/ c[1][Len(c[1])] # c[2] } }

\* parsed bodies of /api/hazards responses: 'hazards' absent, or an array
HazardBodies ==
  { [hasHazards |-> FALSE, hazards |-> <<>>] }
    \cup { [hasHazards |-> TRUE, hazards |-> hs] : hs \in HazardArrays(MaxHazards) }

VARIABLES
  btnActive,        \* action buttons whose classList has "active"
  sectionActive,    \* keys of `sections` whose element has "active"
  clicked,          \* an action button's click listener has run
  markupChecked,    \* the markup's default checkedness of #temporary
  form,             \* current values of the six report fields
  submitStatusText, \* submitStatus.textContent
  submitStatusClass,\* submitStatus.classList
  reportReqs,       \* report submissions suspended at an await
  postsSent,        \* fetch("/api/report") calls made
  reportSubmits,    \* submit events of formReport
  checkLocation,    \* #check-location value at the last submission
  hazardResults,    \* child nodes of hazardResults
  recentReqs,       \* hazard submissions suspended at an await
  getsSent,         \* fetch("/api/hazards?...") calls made
  recentSubmits,    \* submit events of formRecent
  recentNonBlank,   \* those whose location had a non-whitespace character
  shownFor,         \* the submission of formRecent that wrote hazardResults last
  last              \* the submit listener or request continuation that ran last

panelVars == <<btnActive, sectionActive, clicked>>
reportVars == <<markupChecked, form, submitStatusText, submitStatusClass,
                reportReqs, postsSent, reportSubmits>>
recentVars == <<checkLocation, hazardResults, recentReqs, getsSent,
                recentSubmits, recentNonBlank, shownFor>>
vars == <<panelVars, reportVars, recentVars, last>>

\* ----- DOM helpers -----
TextNode(s) == [tag |-> "#text", text |-> <<s>>, children |-> <<>>]

\* element.textContent = s : every child replaced by one text node
SetTextContent(s) == IF s = "" THEN <<>> ELSE <<TextNode(s)>>

Init ==
  /\ \E m \in MarkupActive : btnActive = m[1] /\ sectionActive = m[2]
  /\ clicked = FALSE
  /\ markupChecked \in BOOLEAN
  /\ form = FormDefaults(markupChecked)
  /\ submitStatusText = ""
  /\ submitStatusClass = {"status"}
  /\ reportReqs = {}
  /\ postsSent = 0
  /\ reportSubmits = 0
  /\ checkLocation = <<>>
  /\ hazardResults = <<>>
  /\ recentReqs = {}
  /\ getsSent = 0
  /\ recentSubmits = 0
  /\ recentNonBlank = 0
  /\ shownFor = 0
  /\ last = "DOMContentLoaded"

\* ----- click listener of an action button (lines 13-28) -----
\* variant: line 17 left out, the clicked button is only added
ToggleButtons_NoRemove(active, btn) == active \cup {btn}

\* actionButtons.forEach(b => b.classList.remove("active")); btn.classList.add("active")
ToggleButtons(active, btn) == (active \ actionButtons) \cup {btn}

\* Object.entries(sections).forEach(...): add on the target key, remove on the others
ToggleSections(active, target) ==
  (active \ { key \in sections : key # target }) \cup { key \in sections : key = target }

Click(btn) ==
  /\ UNCHANGED last
  /\ btnActive' = ToggleButtons(btnActive, btn)
  /\ sectionActive' = ToggleSections(sectionActive, dataSection[btn])
  /\ clicked' = TRUE
  /\ UNCHANGED <<reportVars, recentVars>>

\* ----- the payload of a report (lines 40-47) -----
Payload(f) ==
  [location_name |-> trim(f.location_name),
   hazard_type |-> trim(f.hazard_type),
   accessibility |-> f.accessibility,
   user_type |-> f.user_type,
   temporary |-> f.temporary,
   description |-> trim(f.description)]

\* ----- user input into the report form -----
\* variant: the payload of a request not yet answered follows the fields
EditReportForm_LivePayload(f) ==
  /\ form # f
  /\ form' = f
  /\ reportReqs' = { IF r.stage = "fetch" THEN [r EXCEPT !.payload = Payload(f)] ELSE r :
                       r \in reportReqs }
  /\ UNCHANGED <<panelVars, recentVars, markupChecked, submitStatusText,
                 submitStatusClass, postsSent, reportSubmits, last>>

\* variant: typing into the form clears the status message
EditReportForm_ClearsStatus(f) ==
  /\ form # f
  /\ form' = f
  /\ submitStatusText' = ""
  /\ UNCHANGED <<panelVars, recentVars, markupChecked, submitStatusClass,
                 reportReqs, postsSent, reportSubmits, last>>

EditReportForm(f) ==
  /\ UNCHANGED last
  /\ form # f
  /\ form' = f
  /\ UNCHANGED <<panelVars, recentVars, markupChecked, submitStatusText,
                 submitStatusClass, reportReqs, postsSent, reportSubmits>>

\* ----- submit listener of formReport (lines 35-71) -----
\* variant: line 38 left out
SubmitReport_KeepClass ==
  /\ last' = "submit-report"
  /\ reportSubmits + recentSubmits < MaxSubmits
  /\ submitStatusText' = MsgSubmitting
  /\ reportReqs' = reportReqs \cup
       { [id |-> reportSubmits + 1, payload |-> Payload(form),
          stage |-> "fetch", ok |-> FALSE] }
  /\ postsSent' = postsSent + 1
  /\ reportSubmits' = reportSubmits + 1
  /\ UNCHANGED <<panelVars, recentVars, markupChecked, form, submitStatusClass>>

\* variant: a new submission abandons the submissions still outstanding
SubmitReport_Cancel ==
  /\ last' = "submit-report"
  /\ reportSubmits + recentSubmits < MaxSubmits
  /\ submitStatusText' = MsgSubmitting
  /\ submitStatusClass' = {"status"}
  /\ reportReqs' =
       { [id |-> reportSubmits + 1, payload |-> Payload(form),
          stage |-> "fetch", ok |-> FALSE] }
  /\ postsSent' = postsSent + 1
  /\ reportSubmits' = reportSubmits + 1
  /\ UNCHANGED <<panelVars, recentVars, markupChecked, form>>

\* variant: the listener detaches itself once an error has been shown
SubmitReport_Detached ==
  /\ last' = "submit-report"
  /\ reportSubmits + recentSubmits < MaxSubmits
  /\ "error" \notin submitStatusClass
  /\ submitStatusText' = MsgSubmitting
  /\ submitStatusClass' = {"status"}
  /\ reportReqs' = reportReqs \cup
       { [id |-> reportSubmits + 1, payload |-> Payload(form),
          stage |-> "fetch", ok |-> FALSE] }
  /\ postsSent' = postsSent + 1
  /\ reportSubmits' = reportSubmits + 1
  /\ UNCHANGED <<panelVars, recentVars, markupChecked, form>>

\* lines 36-54: up to the await of fetch
SubmitReport ==
  /\ last' = "submit-report"
  /\ reportSubmits + recentSubmits < MaxSubmits
  /\ submitStatusText' = MsgSubmitting
  /\ submitStatusClass' = {"status"}
  /\ reportReqs' = reportReqs \cup
       { [id |-> reportSubmits + 1, payload |-> Payload(form),
          stage |-> "fetch", ok |-> FALSE] }
  /\ postsSent' = postsSent + 1
  /\ reportSubmits' = reportSubmits + 1
  /\ UNCHANGED <<panelVars, recentVars, markupChecked, form>>

\* line 50: fetch resolves with a response; the listener awaits response.json()
ReportFetchResolve(r, ok) ==
  /\ last' = "report-fetch-resolved"
  /\ r \in reportReqs
  /\ r.stage = "fetch"
  /\ reportReqs' = (reportReqs \ {r}) \cup { [r EXCEPT !.stage = "json", !.ok = ok] }
  /\ UNCHANGED <<panelVars, recentVars, markupChecked, form, submitStatusText,
                 submitStatusClass, postsSent, reportSubmits>>

\* variant: the catch block also puts the form back to its defaults
ReportCatch_Reset(r) ==
  /\ submitStatusText' = MsgNetworkError
  /\ submitStatusClass' = submitStatusClass \cup {"error"}
  /\ form' = FormDefaults(markupChecked)
  /\ reportReqs' = reportReqs \ {r}
  /\ UNCHANGED <<panelVars, recentVars, markupChecked, postsSent, reportSubmits>>

\* variant: the catch block sends the request again
ReportCatch_Retry(r) ==
  /\ submitStatusText' = MsgNetworkError
  /\ submitStatusClass' = submitStatusClass \cup {"error"}
  /\ reportReqs' = (reportReqs \ {r}) \cup { [r EXCEPT !.stage = "fetch", !.ok = FALSE] }
  /\ postsSent' = postsSent + 1
  /\ UNCHANGED <<panelVars, recentVars, markupChecked, form, reportSubmits>>

\* variant: the catch block reports the failure as a server rejection
ReportCatch_ServerError(r) ==
  /\ submitStatusText' = "Error: " \o MsgFailed
  /\ submitStatusClass' = submitStatusClass \cup {"error"}
  /\ reportReqs' = reportReqs \ {r}
  /\ UNCHANGED <<panelVars, recentVars, markupChecked, form, postsSent, reportSubmits>>

\* lines 67-70: the catch block
ReportCatch(r) ==
  /\ submitStatusText' = MsgNetworkError
  /\ submitStatusClass' = submitStatusClass \cup {"error"}
  /\ reportReqs' = reportReqs \ {r}
  /\ UNCHANGED <<panelVars, recentVars, markupChecked, form, postsSent, reportSubmits>>

\* line 50: fetch rejects
ReportFetchReject(r) ==
  /\ last' = "report-fetch-rejected"
  /\ r \in reportReqs
  /\ r.stage = "fetch"
  /\ ReportCatch(r)

\* variant: response.json() is awaited outside the try, its rejection is lost
ReportJsonReject_Unhandled(r) ==
  /\ last' = "report-json-rejected"
  /\ r \in reportReqs
  /\ r.stage = "json"
  /\ reportReqs' = reportReqs \ {r}
  /\ UNCHANGED <<panelVars, recentVars, markupChecked, form, submitStatusText,
                 submitStatusClass, postsSent, reportSubmits>>

\* line 56: response.json() rejects (the body is not JSON)
ReportJsonReject(r) ==
  /\ last' = "report-json-rejected"
  /\ r \in reportReqs
  /\ r.stage = "json"
  /\ ReportCatch(r)

\* variant: the server's message is dropped
ErrorOrDefault_Generic(data) == MsgFailed

\* line 59: data.error || "Failed to submit"
ErrorOrDefault(data) ==
  IF data.hasError /\ data.error # "" THEN data.error ELSE MsgFailed

\* formReport.reset(): every field back to the markup's default
FormReset(f, checked) == FormDefaults(checked)

\* variant: line 65 left out
ResetAndCheck_ResetOnly(f, checked) == FormReset(f, checked)

\* lines 64-65
ResetAndCheck(f, checked) == [FormReset(f, checked) EXCEPT !.temporary = TRUE]

\* lines 56-66: response.json() resolves with data
ReportJsonResolve(r, data) ==
  /\ last' = "report-json-resolved"
  /\ r \in reportReqs
  /\ r.stage = "json"
  /\ IF ~r.ok
     THEN /\ submitStatusText' = "Error: " \o ErrorOrDefault(data)
          /\ submitStatusClass' = submitStatusClass \cup {"error"}
          /\ form' = form
     ELSE /\ submitStatusText' = MsgSuccess
          /\ submitStatusClass' = submitStatusClass \cup {"success"}
          /\ form' = ResetAndCheck(form, markupChecked)
  /\ reportReqs' = reportReqs \ {r}
  /\ UNCHANGED <<panelVars, recentVars, markupChecked, postsSent, reportSubmits>>

\* ----- submit listener of formRecent (lines 77-114) -----
\* encodeURIComponent on the characters used here
EncodeChar(c) ==
  CASE c = " " -> <<"%", "2", "0">>
    [] c = "\t" -> <<"%", "0", "9">>
    [] OTHER -> <<c>>

RECURSIVE encodeURIComponent(_)
encodeURIComponent(s) ==
  IF s = <<>> THEN <<>> ELSE EncodeChar(Head(s)) \o encodeURIComponent(Tail(s))

\* the submitted text has a character that is not white space
NonBlank(s) == \E i \in 1..Len(s) : s[i] \notin WhiteSpace

\* lines 78-88: up to the early return or the await of fetch; typed is the
\* value #check-location has when the form is submitted
SubmitRecent(typed) ==
  /\ last' = "submit-recent"
  /\ reportSubmits + recentSubmits < MaxSubmits
  /\ checkLocation' = typed
  /\ recentSubmits' = recentSubmits + 1
  /\ recentNonBlank' = recentNonBlank + (IF NonBlank(typed) THEN 1 ELSE 0)
  /\ shownFor' = recentSubmits + 1
  /\ LET loading == SetTextContent(MsgLoading)
         location == trim(typed)
     IN IF location = <<>>
        THEN /\ hazardResults' = SetTextContent(MsgEnterLocation)
             /\ UNCHANGED <<recentReqs, getsSent>>
        ELSE /\ hazardResults' = loading
             /\ recentReqs' = recentReqs \cup
                  { [id |-> recentSubmits + 1, query |-> encodeURIComponent(location),
                     stage |-> "fetch", ok |-> FALSE] }
             /\ getsSent' = getsSent + 1
  /\ UNCHANGED <<panelVars, reportVars>>

\* line 88: fetch resolves with a response; the listener awaits res.json()
RecentFetchResolve(r, ok) ==
  /\ last' = "recent-fetch-resolved"
  /\ r \in recentReqs
  /\ r.stage = "fetch"
  /\ recentReqs' = (recentReqs \ {r}) \cup { [r EXCEPT !.stage = "json", !.ok = ok] }
  /\ UNCHANGED <<panelVars, reportVars, checkLocation, hazardResults, getsSent,
                 recentSubmits, recentNonBlank, shownFor>>

\* variant: the catch block writes its message into submitStatus
RecentCatch_WrongRegion(r) ==
  /\ submitStatusText' = MsgFetchError
  /\ recentReqs' = recentReqs \ {r}
  /\ UNCHANGED <<panelVars, markupChecked, form, submitStatusClass, reportReqs,
                 postsSent, reportSubmits, checkLocation, hazardResults, getsSent,
                 recentSubmits, recentNonBlank, shownFor>>

\* variant: the catch block leaves the results region as it is
RecentCatch_Silent(r) ==
  /\ hazardResults' = hazardResults
  /\ recentReqs' = recentReqs \ {r}
  /\ UNCHANGED <<panelVars, reportVars, checkLocation, getsSent, recentSubmits,
                 recentNonBlank, shownFor>>

\* lines 111-113: the catch block
RecentCatch(r) ==
  /\ shownFor' = r.id
  /\ hazardResults' = SetTextContent(MsgFetchError)
  /\ recentReqs' = recentReqs \ {r}
  /\ UNCHANGED <<panelVars, reportVars, checkLocation, getsSent, recentSubmits,
                 recentNonBlank>>

\* line 88: fetch rejects
RecentFetchReject(r) ==
  /\ last' = "recent-fetch-rejected"
  /\ r \in recentReqs
  /\ r.stage = "fetch"
  /\ RecentCatch(r)

\* line 89: res.json() rejects (the body is not JSON)
RecentJsonReject(r) ==
  /\ last' = "recent-json-rejected"
  /\ r \in recentReqs
  /\ r.stage = "json"
  /\ RecentCatch(r)

\* `${h.accessibility}` of a number
NumToStr(n) ==
  CASE n = 0 -> "0" [] n = 1 -> "1" [] n = 2 -> "2" [] n = 3 -> "3"
    [] n = 4 -> "4" [] OTHER -> "5"

\* lines 98-103: the li and the segments of its innerHTML (the bullet and the
\* dash of the template are written by their code points)
HazardItem(h) ==
  [tag |-> "li",
   text |-> <<"<span class=\"pill\"><span class=\"dot\"></span>", h.day, " U+2022 ",
              h.timestamp, "</span><br>", "<strong>", h.location_name, "</strong> U+2013 ",
              h.hazard_type, " ", "(accessibility: ", NumToStr(h.accessibility),
              "/5, user: ", h.user_type, ")">>
            \o (IF h.description # "" THEN <<"<br><em>", h.description, "</em>">> ELSE <<>>),
   children |-> <<>>]

\* lines 94-105: the ul with one li appended per element, in forEach order
RECURSIVE AppendItems(_, _)
AppendItems(items, hs) ==
  IF hs = <<>> THEN items
  ELSE AppendItems(Append(items, HazardItem(Head(hs))), Tail(hs))

HazardList(hs) ==
  [tag |-> "ul", text |-> <<"results-list">>, children |-> AppendItems(<<>>, hs)]

\* variant: line 91 left out
ClearInnerHTML_Keep(nodes) == nodes

\* line 91: hazardResults.innerHTML = ""
ClearInnerHTML(nodes) == <<>>

\* lines 91-110
RenderHazards(nodes, data) ==
  LET cleared == ClearInnerHTML(nodes)
  IN IF data.hasHazards /\ Len(data.hazards) > 0
     THEN Append(cleared, HazardList(data.hazards))
     ELSE SetTextContent(MsgNoHazards)

\* lines 89-110: res.json() resolves with data
RecentJsonResolve(r, data) ==
  /\ last' = "recent-json-resolved"
  /\ r \in recentReqs
  /\ r.stage = "json"
  /\ shownFor' = r.id
  /\ hazardResults' = RenderHazards(hazardResults, data)
  /\ recentReqs' = recentReqs \ {r}
  /\ UNCHANGED <<panelVars, reportVars, checkLocation, getsSent, recentSubmits,
                 recentNonBlank>>

Next ==
  \/ \E btn \in actionButtons : Click(btn)
  \/ \E f \in FormInputs : EditReportForm(f)
  \/ SubmitReport
  \/ \E r \in reportReqs, ok \in BOOLEAN : ReportFetchResolve(r, ok)
  \/ \E r \in reportReqs : ReportFetchReject(r)
  \/ \E r \in reportReqs : ReportJsonReject(r)
  \/ \E r \in reportReqs, data \in ReportBodies : ReportJsonResolve(r, data)
  \/ \E typed \in Locations : SubmitRecent(typed)
  \/ \E r \in recentReqs, ok \in BOOLEAN : RecentFetchResolve(r, ok)
  \/ \E r \in recentReqs : RecentFetchReject(r)
  \/ \E r \in recentReqs : RecentJsonReject(r)
  \/ \E r \in recentReqs, data \in HazardBodies : RecentJsonResolve(r, data)

Spec == Init /\ [][Next]_vars

\* ----- every request sent is answered or fails -----
\* some outstanding report request moves on: its fetch or its response.json()
\* resolves or rejects
ReportSettle ==
  \E r \in reportReqs :
    \/ \E ok \in BOOLEAN : ReportFetchResolve(r, ok)
    \/ ReportFetchReject(r)
    \/ ReportJsonReject(r)
    \/ \E data \in ReportBodies : ReportJsonResolve(r, data)

\* some outstanding hazards request moves on
RecentSettle ==
  \E r \in recentReqs :
    \/ \E ok \in BOOLEAN : RecentFetchResolve(r, ok)
    \/ RecentFetchReject(r)
    \/ RecentJsonReject(r)
    \/ \E data \in HazardBodies : RecentJsonResolve(r, data)

FairSpec == Spec /\ WF_vars(ReportSettle) /\ WF_vars(RecentSettle)

\* ----- C1 -----
\* C1: a click on action button b leaves exactly {b} active among the buttons
\* and exactly the section named by b's data-section active, whatever was
\* active before; so once a click has happened exactly one button and one
\* section are active and they carry the same name, under every interleaving
\* with submissions and responses.
C1_PanelSwitch ==
  /\ [](clicked =>
         /\ Cardinality(btnActive) = 1
         /\ Cardinality(sectionActive) = 1
         /\ \A b \in btnActive : dataSection[b] \in sectionActive)
  /\ [][\A b \in actionButtons :
          Click(b) => /\ btnActive' = {b}
                      /\ sectionActive' = {dataSection[b]}]_vars

\* a click has replaced a markup state with several active buttons, while a
\* report request is outstanding
C1_Witness ==
  /\ clicked
  /\ btnActive = {"btn-predict"}
  /\ sectionActive = {"predict"}
  /\ reportReqs # {}
  /\ last = "recent-json-resolved"

\* ----- C2 -----
\* this step ends report submission r: nothing of it stays suspended
ReportEnds(r) == \A q \in reportReqs' : q.id # r.id

ReportSucceeded ==
  /\ submitStatusText = MsgSuccess
  /\ "success" \in submitStatusClass
  /\ form = [FormDefaults(markupChecked) EXCEPT !.temporary = TRUE]

\* C2 as stated: every report response with ok status, once handled, leaves
\* the success message with the 'success' class, the form at its defaults and
\* 'temporary' checked.
C2_Original ==
  [][\A r \in reportReqs :
       (r.stage = "json" /\ r.ok /\ ReportEnds(r)) => ReportSucceeded']_vars

\* C2: a report response with ok status whose body parses as JSON leaves the
\* success message with the 'success' class, the form at its defaults and
\* 'temporary' checked.
C2_SuccessWhenParsed ==
  [][\A r \in reportReqs, data \in ReportBodies :
       (r.ok /\ ReportJsonResolve(r, data)) => ReportSucceeded']_vars

\* a success was handled on a page whose markup leaves 'temporary' unchecked
C2_Witness ==
  /\ last = "report-json-resolved"
  /\ ReportSucceeded
  /\ ~markupChecked
  /\ reportSubmits = 2

\* ----- C3 -----
\* the text C3 names for a body: the 'error' field if present
ClaimedErrorText(data) ==
  IF data.hasError THEN "Error: " \o data.error ELSE "Error: Failed to submit"

\* C3 as stated: every report response with not-ok status, once handled,
\* leaves "Error: " followed by the body's 'error' field if present and by
\* "Failed to submit" otherwise (a body that is not JSON has no such field),
\* with the 'error' class.
C3_Original ==
  [][\A r \in reportReqs :
       (r.stage = "json" /\ ~r.ok /\ ReportEnds(r)) =>
          /\ "error" \in submitStatusClass'
          /\ \A data \in ReportBodies :
               ReportJsonResolve(r, data) => submitStatusText' = ClaimedErrorText(data)
          /\ ReportJsonReject(r) => submitStatusText' = "Error: Failed to submit"]_vars

\* C3: a report response with not-ok status whose body parses as a JSON object
\* leaves "Error: " followed by the body's 'error' field if that field is
\* present and not empty, and by "Failed to submit" otherwise, with the
\* 'error' class.
C3_ServerRejection ==
  [][\A r \in reportReqs, data \in ReportBodies :
       (~r.ok /\ ReportJsonResolve(r, data)) =>
          /\ "error" \in submitStatusClass'
          /\ submitStatusText' =
               "Error: " \o (IF data.hasError /\ data.error # ""
                             THEN data.error ELSE "Failed to submit")]_vars

\* a rejection carrying the server's message was handled
C3_Witness ==
  /\ last = "report-json-resolved"
  /\ submitStatusText = "Error: bad input"
  /\ "error" \in submitStatusClass

\* ----- C4 -----
ServerErrorTexts == { "Error: " \o e : e \in {"Failed to submit", "", "bad input"} }

\* C4: when the fetch of a report submission rejects, the status shows the
\* network-error message with the 'error' class, and neither a server-error
\* message nor the success message.
C4_TransportFailure ==
  [][\A r \in reportReqs :
       (r.stage = "fetch" /\ ReportEnds(r)) =>
          /\ submitStatusText' = MsgNetworkError
          /\ "error" \in submitStatusClass'
          /\ submitStatusText' \notin ServerErrorTexts \cup {MsgSuccess}]_vars

\* the fetch of the second of two report submissions was rejected
C4_Witness ==
  /\ last = "report-fetch-rejected"
  /\ submitStatusText = MsgNetworkError
  /\ "error" \in submitStatusClass
  /\ reportSubmits = 2

\* ----- C5 -----
\* C5: a submission of the recent-hazards form whose location has no
\* non-whitespace character shows the prompt and sends nothing; a GET is sent
\* only by a submission with a non-blank location, one per such submission, so
\* the GETs sent always number the non-blank submissions.
C5_Validation ==
  /\ [](getsSent = recentNonBlank)
  /\ [][(recentSubmits' # recentSubmits /\ ~NonBlank(checkLocation')) =>
          /\ hazardResults' = <<TextNode(MsgEnterLocation)>>
          /\ UNCHANGED <<recentReqs, getsSent>>]_vars
  /\ [][getsSent' # getsSent =>
          /\ getsSent' = getsSent + 1
          /\ recentSubmits' = recentSubmits + 1
          /\ NonBlank(checkLocation')]_vars

\* a whitespace-only submission was prompted after an earlier one had sent a GET
C5_Witness ==
  /\ last = "submit-recent"
  /\ checkLocation = <<" ", "\t">>
  /\ hazardResults = <<TextNode(MsgEnterLocation)>>
  /\ recentSubmits = 2
  /\ getsSent = 1

\* ----- C6 -----
\* segment x occurs in the markup of item li
Shows(li, x) == \E k \in 1..Len(li.text) : li.text[k] = x

\* C6: handling a parsed hazards body replaces the whole results region: a
\* non-empty 'hazards' array gives exactly one list whose items are, in array
\* order, one per record; an absent or empty one gives exactly the
\* no-hazards message.
C6_Rendering ==
  [][\A r \in recentReqs, data \in HazardBodies :
       RecentJsonResolve(r, data) =>
         IF data.hasHazards /\ data.hazards # <<>>
         THEN /\ Len(hazardResults') = 1
              /\ hazardResults'[1].tag = "ul"
              /\ Len(hazardResults'[1].children) = Len(data.hazards)
              /\ \A i \in 1..Len(data.hazards) :
                   LET li == hazardResults'[1].children[i]
                   IN /\ li.tag = "li"
                      /\ Shows(li, data.hazards[i].location_name)
                      /\ Shows(li, data.hazards[i].hazard_type)
                      /\ Shows(li, data.hazards[i].day)
         ELSE hazardResults' = <<TextNode(MsgNoHazards)>>]_vars

\* the second query's response was rendered as a list of two different records
C6_Witness ==
  /\ last = "recent-json-resolved"
  /\ recentSubmits = 2
  /\ Len(hazardResults) = 1
  /\ hazardResults[1].tag = "ul"
  /\ Len(hazardResults[1].children) = 2
  /\ hazardResults[1].children[1] # hazardResults[1].children[2]

\* ----- C7 -----
\* C7: when the hazards fetch rejects, or the response body is not JSON, the
\* results region holds exactly the generic fetch-error message.
C7_FetchError ==
  [][\A r \in recentReqs :
       (RecentFetchReject(r) \/ RecentJsonReject(r)) =>
          hazardResults' = <<TextNode(MsgFetchError)>>]_vars

\* the body of the second query's response could not be parsed
C7_Witness ==
  /\ last = "recent-json-rejected"
  /\ recentSubmits = 2
  /\ hazardResults = <<TextNode(MsgFetchError)>>

\* ----- C8 -----
\* this step ends hazards submission r
RecentEnds(r) == \A q \in recentReqs' : q.id # r.id

\* the outcome a results region shows
RecentOutcome(nodes) ==
  CASE nodes = <<TextNode(MsgLoading)>> -> "pending"
    [] nodes = <<TextNode(MsgEnterLocation)>> -> "prompt"
    [] nodes = <<TextNode(MsgFetchError)>> -> "network_error"
    [] nodes = <<TextNode(MsgNoHazards)>> -> "success"
    [] Len(nodes) = 1 /\ nodes[1].tag = "ul" -> "success"
    [] Len(nodes) = 1 /\ nodes[1].tag = "#text" -> "http_error"
    [] OTHER -> "idle"

\* the outcome a status region shows
ReportOutcome(text) ==
  CASE text = MsgSubmitting -> "pending"
    [] text = MsgSuccess -> "success"
    [] text = MsgNetworkError -> "network_error"
    [] text \in ServerErrorTexts -> "http_error"
    [] OTHER -> "idle"

\* C8: in either flow a response with not-ok status (its body parsed) ends the
\* attempt in the server-rejected outcome, shown as error text and distinct
\* from the success and the transport-failed outcomes.
C8_BothErrorKinds ==
  /\ [][\A r \in reportReqs, data \in ReportBodies :
          (~r.ok /\ ReportJsonResolve(r, data)) =>
             ReportOutcome(submitStatusText') = "http_error"]_vars
  /\ [][\A r \in recentReqs, data \in HazardBodies :
          (~r.ok /\ RecentJsonResolve(r, data)) =>
             RecentOutcome(hazardResults') = "http_error"]_vars

\* ----- C9 -----
\* C9: the POSTs sent always number the report submissions, and a POST is sent
\* only by the step of a submission, one per submission; no continuation of a
\* request sends anything.
C9_OnePostPerSubmit ==
  /\ [](postsSent = reportSubmits)
  /\ [][postsSent' # postsSent =>
          /\ postsSent' = postsSent + 1
          /\ reportSubmits' = reportSubmits + 1
          /\ last' = "submit-report"]_vars
  /\ [][\A r \in reportReqs : ReportEnds(r) => UNCHANGED postsSent]_vars

\* two submissions have ended, the last one rejected by the server, and
\* nothing is outstanding
C9_Witness ==
  /\ postsSent = 2
  /\ last = "report-json-resolved"
  /\ submitStatusText \in ServerErrorTexts
  /\ reportReqs = {}

\* ----- C10 -----
\* C10: whatever outcomes were shown before, a submission of either form is
\* accepted (within the number of submissions explored) and processed as the
\* first one is: the report listener sets the pending text, resets the class
\* and suspends one new request; the hazards listener shows the pending text
\* and suspends one new request, or shows the prompt.
C10_NotFatal ==
  /\ [](reportSubmits + recentSubmits < MaxSubmits =>
          /\ ENABLED SubmitReport
          /\ \A typed \in Locations : ENABLED SubmitRecent(typed))
  /\ [][reportSubmits' # reportSubmits =>
          /\ submitStatusText' = MsgSubmitting
          /\ submitStatusClass' = {"status"}
          /\ \E q \in reportReqs' :
               /\ q \notin reportReqs
               /\ q.stage = "fetch"
               /\ reportReqs' = reportReqs \cup {q}]_vars
  /\ [][recentSubmits' # recentSubmits =>
          IF NonBlank(checkLocation')
          THEN /\ hazardResults' = <<TextNode(MsgLoading)>>
               /\ \E q \in recentReqs' :
                    /\ q \notin recentReqs
                    /\ q.stage = "fetch"
                    /\ recentReqs' = recentReqs \cup {q}
          ELSE hazardResults' = <<TextNode(MsgEnterLocation)>>]_vars

\* a second report was accepted after the first had ended, and the class left
\* by the earlier outcome is gone
C10_Witness ==
  /\ last = "submit-report"
  /\ reportSubmits = 2
  /\ submitStatusText = MsgSubmitting
  /\ submitStatusClass = {"status"}
  /\ \A q \in reportReqs : q.id = 2
  /\ reportReqs # {}

\* ----- C11 -----
\* C11: nothing but the end of one of its own requests (a response handled or
\* a rejection caught) takes the status region off "Submitting...", and
\* nothing but the end of one of its own requests or a new submission of the
\* recent-hazards form takes the results region off "Loading recent
\* hazards..."; so while a request hangs and the form is not submitted again
\* the region stays at its pending text.
C11_NoTimeout ==
  /\ [][(submitStatusText = MsgSubmitting /\ submitStatusText' # MsgSubmitting) =>
          \E r \in reportReqs : ReportEnds(r)]_vars
  /\ [][(hazardResults = <<TextNode(MsgLoading)>> /\ hazardResults' # hazardResults) =>
          \/ \E r \in recentReqs : RecentEnds(r)
          \/ recentSubmits' # recentSubmits]_vars

\* a report request still hangs at its fetch, the status still pending, after
\* a click and a whole hazards query have gone by
C11_Witness ==
  /\ submitStatusText = MsgSubmitting
  /\ \E r \in reportReqs : r.stage = "fetch"
  /\ clicked
  /\ last = "recent-json-resolved"
  /\ recentReqs = {}

\* ----- C12 -----
\* a step of the report flow: a submission, or a request of it moving on
ReportStep == reportSubmits' # reportSubmits \/ reportReqs' # reportReqs

\* a step of the hazards flow
RecentStep == recentSubmits' # recentSubmits \/ recentReqs' # recentReqs

\* C12: a step of the report flow leaves the results region and the active
\* button and section as they are; a step of the hazards flow leaves the
\* status region, the report fields and the active button and section as they
\* are; a click leaves both regions, the report fields and the outstanding
\* requests as they are.
C12_DisjointState ==
  /\ [][ReportStep => UNCHANGED <<hazardResults, btnActive, sectionActive>>]_vars
  /\ [][RecentStep => UNCHANGED <<submitStatusText, submitStatusClass, form,
                                  btnActive, sectionActive>>]_vars
  /\ [][(\E b \in actionButtons : Click(b)) =>
          UNCHANGED <<submitStatusText, submitStatusClass, hazardResults, form,
                      reportReqs, recentReqs>>]_vars

\* a click has changed the panel and a hazards query has failed while the
\* status region still shows the success of a report and the form its reset
C12_Witness ==
  /\ clicked
  /\ sectionActive = {"recent"}
  /\ last = "recent-fetch-rejected"
  /\ hazardResults = <<TextNode(MsgFetchError)>>
  /\ ReportSucceeded
  /\ submitStatusClass = {"status", "success"}

\* ----- C13 -----
\* C13: a report submission is accepted while earlier ones are outstanding
\* and sends its request at once, leaving every outstanding request as it is;
\* the end of a request writes the text and adds the class of that request's
\* own outcome, whatever other requests exist and in whatever order they were
\* submitted, and leaves the other requests as they are; so the text is that
\* of the response handled last.
C13_Overlap ==
  /\ [](reportSubmits + recentSubmits < MaxSubmits => ENABLED SubmitReport)
  /\ [][reportSubmits' # reportSubmits =>
          /\ postsSent' = postsSent + 1
          /\ reportReqs \subseteq reportReqs'
          /\ \E q \in reportReqs' \ reportReqs :
               /\ q.id = reportSubmits'
               /\ q.stage = "fetch"
               /\ reportReqs' = reportReqs \cup {q}]_vars
  /\ [][\A r \in reportReqs :
          /\ \A data \in ReportBodies :
               ReportJsonResolve(r, data) =>
                 /\ submitStatusText' =
                      (IF r.ok THEN MsgSuccess ELSE "Error: " \o ErrorOrDefault(data))
                 /\ submitStatusClass' =
                      submitStatusClass \cup {IF r.ok THEN "success" ELSE "error"}
                 /\ reportReqs' = reportReqs \ {r}
          /\ (ReportFetchReject(r) \/ ReportJsonReject(r)) =>
                 /\ submitStatusText' = MsgNetworkError
                 /\ submitStatusClass' = submitStatusClass \cup {"error"}
                 /\ reportReqs' = reportReqs \ {r}]_vars

\* the response to the second of two overlapping submissions was handled
\* first: its success is shown while the first request is still outstanding
C13_Witness ==
  /\ reportSubmits = 2
  /\ reportReqs # {}
  /\ \A q \in reportReqs : q.id = 1
  /\ last = "report-json-resolved"
  /\ submitStatusText = MsgSuccess

\* ----- C14 -----
\* C14: the step of a report submission, the one that sends its request,
\* leaves the status text "Submitting..." and the class list exactly
\* {status}, whatever class an earlier attempt had added.
C14_PendingResetsClass ==
  [][reportSubmits' # reportSubmits =>
       /\ postsSent' # postsSent
       /\ submitStatusText' = MsgSubmitting
       /\ submitStatusClass' = {"status"}]_vars

\* the form was submitted again as the success of the first attempt had left
\* it (reset, 'temporary' checked by the script): the 'success' class is gone
C14_Witness ==
  /\ last = "submit-report"
  /\ reportSubmits = 2
  /\ ~markupChecked
  /\ form = ResetAndCheck(form, markupChecked)
  /\ \A q \in reportReqs : q.id = 2 /\ q.payload.temporary
  /\ submitStatusText = MsgSubmitting
  /\ submitStatusClass = {"status"}

\* ----- C15 -----
\* t is v without the white space at its two ends
Stripped(v, t) ==
  /\ \E i \in 1..(Len(v) + 1) : \E j \in (i - 1)..Len(v) :
       /\ t = SubSeq(v, i, j)
       /\ \A k \in 1..Len(v) : (k < i \/ k > j) => v[k] \in WhiteSpace
  /\ t # <<>> => (t[1] \notin WhiteSpace /\ t[Len(t)] \notin WhiteSpace)

\* a request's payload never changes once built
PayloadKept ==
  \A r \in reportReqs : \A q \in reportReqs' : q.id = r.id => q.payload = r.payload

\* C15 as stated: the payload of the request a submission builds is the six
\* field values as they are at that moment, and stays what it is.
C15_Original ==
  [][/\ reportSubmits' # reportSubmits =>
          \E q \in reportReqs' \ reportReqs : q.payload = form
     /\ PayloadKept]_vars

\* C15: the payload of the request a submission builds is the six field
\* values as they are at that moment, the three text values (location_name,
\* hazard_type, description) without the white space at their ends, and it
\* stays what it is under later edits and resets of the form.
C15_PayloadSnapshot ==
  [][/\ reportSubmits' # reportSubmits =>
          \E q \in reportReqs' \ reportReqs :
             /\ Stripped(form.location_name, q.payload.location_name)
             /\ Stripped(form.hazard_type, q.payload.hazard_type)
             /\ Stripped(form.description, q.payload.description)
             /\ q.payload.accessibility = form.accessibility
             /\ q.payload.user_type = form.user_type
             /\ q.payload.temporary = form.temporary
     /\ PayloadKept]_vars

\* the success of an overlapping submission has reset the form while a
\* request built from the typed values is still outstanding
C15_Witness ==
  /\ last = "report-json-resolved"
  /\ submitStatusText = MsgSuccess
  /\ form = ResetAndCheck(form, markupChecked)
  /\ \E r \in reportReqs :
       /\ r.payload.location_name = <<"E", "l", "m">>
       /\ r.payload.temporary = FALSE

\* ----- C16 -----
\* C16: when every request sent is eventually answered or fails, a region
\* showing its pending text eventually shows something else, and in every
\* state where a flow has no request outstanding its region does not show the
\* pending text.
C16_EndsInOutcome ==
  /\ [](reportReqs = {} => submitStatusText # MsgSubmitting)
  /\ [](recentReqs = {} => hazardResults # <<TextNode(MsgLoading)>>)
  /\ (submitStatusText = MsgSubmitting) ~> (submitStatusText # MsgSubmitting)
  /\ (hazardResults = <<TextNode(MsgLoading)>>) ~>
       (hazardResults # <<TextNode(MsgLoading)>>)

\* two report submissions have been through the pending text and have ended,
\* the last one by a rejected fetch; nothing is outstanding
C16_Witness ==
  /\ reportSubmits = 2
  /\ reportReqs = {}
  /\ last = "report-fetch-rejected"
  /\ ReportOutcome(submitStatusText) = "network_error"

\* ----- C17 -----
\* C17: the report fields change only by the user's input or by the handling
\* of a successful response; the end of a request in a server-rejected or
\* transport-failed outcome leaves every field as it was just before.
C17_FormKeptOnError ==
  /\ [][form' # form =>
          \/ \E f \in FormInputs : EditReportForm(f)
          \/ \E r \in reportReqs :
               /\ r.stage = "json" /\ r.ok /\ ReportEnds(r)
               /\ ReportOutcome(submitStatusText') = "success"]_vars
  /\ [][\A r \in reportReqs :
          (ReportEnds(r) /\ ReportOutcome(submitStatusText') \in {"http_error", "network_error"})
             => form' = form]_vars

\* a server rejection has been handled and the form still holds what the user
\* typed
C17_Witness ==
  /\ last = "report-json-resolved"
  /\ ReportOutcome(submitStatusText) = "http_error"
  /\ form \in FormInputs
  /\ form.location_name = <<" ", "E", "l", "m", " ">>

\* ----- C18 -----
\* C18: in every reachable state the status region carries at most one of
\* the classes 'error' and 'success', and carries 'error' exactly when its
\* text names an error outcome and 'success' exactly when its text names the
\* success.
C18_ClassMatchesText ==
  /\ ~({"error", "success"} \subseteq submitStatusClass)
  /\ "error" \in submitStatusClass <=>
       ReportOutcome(submitStatusText) \in {"http_error", "network_error"}
  /\ "success" \in submitStatusClass <=>
       ReportOutcome(submitStatusText) = "success"

\* ----- C19 -----
\* C19: in every state where no hazards request is outstanding, the results
\* region holds what the most recent submission of the recent-hazards form
\* produced (its list, its message or the prompt), not what an earlier
\* submission produced.
C19_LatestQueryShown ==
  recentReqs = {} => shownFor = recentSubmits
====
